---- MODULE Spec2Model ----
(***************************************************************************)
(* Ozodon hub node: the offer index (services/hub_service.py) and the      *)
(* escrow endpoints (routes/hub.py) over the payment service               *)
(* (services/ton_payment.py).  Request handlers are coroutines; they may   *)
(* interleave at every awaited storage or provider call, so each awaited   *)
(* call is one step of a handler.                                          *)
(***************************************************************************)
EXTENDS Integers, Sequences, FiniteSets, TLC

\* ---------------------------------------------------------------- bounds
\* Number of request handlers that may be in flight at the same time.
NumHandlers == 2
\* Number of escrow requests accepted in one behaviour.
MaxRequests == 3

\* ------------------------------------------------------- absent values
\* A key that is absent from a document or payload (Python None / KeyError).
Missing == "<missing>"
NoNum == -1
NoActor == << >>

\* ------------------------------------------------------------ constants
DefaultTimeoutDays == 7
NanoPerTenth == 100000000
HashSpace == 10000000

Handlers == 1..NumHandlers

\* ------------------------------------------------------------ activities
\* Actor URLs as the list of their "/"-separated pieces
\* ("https://shop.example/users/alice").
Alice == <<"https:", "", "shop.example", "users", "alice">>
Bob == <<"https:", "", "bazaar.example", "users", "bob">>

\* Hashtag names as lists of characters.
TagMarket == <<"#", "m">>
TagArt == <<"#", "#", "a">>
TagPlain == <<"w">>

\* Inbound activities.  price is the number carried by schema:price in tenths
\* of a unit, NoNum when the key is absent.
OfferA == [type |-> "Offer", id |-> "act1", obj_id |-> "p1", name |-> "lamp",
           price |-> 100, currency |-> Missing, actor |-> Alice,
           tag |-> <<TagMarket, TagArt>>, published |-> 1]
OfferARepriced == [type |-> "Offer", id |-> "act3", obj_id |-> "p1", name |-> "lamp",
           price |-> 500, currency |-> "RUB", actor |-> Alice,
           tag |-> <<TagMarket>>, published |-> 2]
OfferB == [type |-> "Offer", id |-> "p2", obj_id |-> Missing, name |-> "rug",
           price |-> NoNum, currency |-> "RUB", actor |-> Bob,
           tag |-> <<TagPlain>>, published |-> 1]
Like == [type |-> "Like", id |-> "act4", obj_id |-> "p1", name |-> Missing,
           price |-> NoNum, currency |-> Missing, actor |-> Bob,
           tag |-> << >>, published |-> 1]

Activities == {OfferA, OfferARepriced, OfferB, Like}

\* ------------------------------------------------------- offer documents
RECURSIVE LStrip(_)
\* str.lstrip("#"): drop every leading "#".
LStrip(s) ==
    IF s # << >> /\ Head(s) = "#" THEN LStrip(Tail(s)) ELSE s

\* obj.get("id") or activity.get("id")
ProductId(activity) ==
    IF activity.obj_id # Missing /\ activity.obj_id # ""
    THEN activity.obj_id
    ELSE activity.id

\* The normalized product of index_offer: the fields written by $set.
ProductOf(activity) ==
    [id |-> ProductId(activity),
     name |-> IF activity.name = Missing THEN "" ELSE activity.name,
     price |-> IF activity.price = NoNum THEN 0 ELSE activity.price,
     currency |-> IF activity.currency = Missing THEN "TON" ELSE activity.currency,
     seller |-> activity.actor,
     origin_instance |-> activity.actor[3],
     tags |-> [i \in 1..Len(activity.tag) |-> LStrip(activity.tag[i])],
     published |-> activity.published,
     source_activity |-> activity.id]

\* A document inserted by the upsert carries only the product's fields: the
\* reservation and sale keys are absent.
NewOfferDoc(product) ==
    [id |-> product.id, name |-> product.name, price |-> product.price,
     currency |-> product.currency, seller |-> product.seller,
     origin_instance |-> product.origin_instance, tags |-> product.tags,
     published |-> product.published, source_activity |-> product.source_activity,
     reserved |-> FALSE, reserved_deal_id |-> NoNum, reserved_by |-> Missing,
     reserved_until |-> NoNum, sold |-> FALSE, sold_deal_id |-> NoNum]

\* {"$set": product} on an existing document.
SetProduct(doc, product) ==
    [doc EXCEPT !.id = product.id, !.name = product.name, !.price = product.price,
                !.currency = product.currency, !.seller = product.seller,
                !.origin_instance = product.origin_instance, !.tags = product.tags,
                !.published = product.published,
                !.source_activity = product.source_activity]

\* Position of the first document of a collection whose key equals value,
\* 0 when there is none (find_one, and the match of update_one).
FindOffer(coll, id) ==
    IF \E i \in 1..Len(coll) : coll[i].id = id
    THEN CHOOSE i \in 1..Len(coll) :
            /\ coll[i].id = id
            /\ \A j \in 1..(i - 1) : coll[j].id # id
    ELSE 0

FindDeal(coll, deal_id) ==
    IF \E i \in 1..Len(coll) : coll[i].deal_id = deal_id
    THEN CHOOSE i \in 1..Len(coll) :
            /\ coll[i].deal_id = deal_id
            /\ \A j \in 1..(i - 1) : coll[j].deal_id # deal_id
    ELSE 0

\* insert_one in place of the upsert.
InsertOffer(coll, product) == Append(coll, NewOfferDoc(product))

\* db.hub_offers.update_one({"id": id}, {"$set": product}, upsert=True)
UpsertOffer(coll, product) ==
    LET i == FindOffer(coll, product.id) IN
    IF i = 0
    THEN Append(coll, NewOfferDoc(product))
    ELSE [coll EXCEPT ![i] = SetProduct(coll[i], product)]

\* index_offer as a function of the collection.
IndexOfferOn(coll, activity) == UpsertOffer(coll, ProductOf(activity))


\* -------------------------------------------------------- deal documents
\* to_nano: int(float(amount_ton) * 1_000_000_000), amounts counted in tenths
\* of a TON.
ToNano(amount_tenths) == amount_tenths * NanoPerTenth

\* hash(str) of a buyer address: one fixed number per address.
BuyerCode(buyer) ==
    CASE buyer = "b1" -> 1
      [] buyer = "b2" -> 2
      [] OTHER -> 0

\* abs(hash((buyer_address, amount_nano, timeout_days))) % 10_000_000: a
\* number below 10_000_000 determined by the three arguments and by nothing
\* else (the mixing of Python's tuple hash is stood for by a polynomial).
DealHash(buyer, amount_nano, timeout_days) ==
    (BuyerCode(buyer) * 1000003 + (amount_nano % 9999991) * 31 + timeout_days)
        % HashSpace

\* The validation of TONPaymentService.create_escrow_deal (ValueError).
FreezeRejects(buyer, amount_tenths, timeout_days) ==
    \/ buyer = ""
    \/ amount_tenths <= 0
    \/ timeout_days <= 0

\* deal_doc of create_escrow.
DealDoc(deal_id, product_id, seller, buyer, amount_tenths, timeout_days) ==
    [deal_id |-> deal_id, status |-> "frozen", product_id |-> product_id,
     seller |-> seller, buyer_address |-> buyer, amount_ton |-> amount_tenths,
     amount_nano |-> ToNano(amount_tenths), timeout_days |-> timeout_days]

\* db.hub_deals.update_one({"deal_id": ...}, {"$set": deal_doc}, upsert=True)
UpsertDeal(coll, deal_doc) ==
    LET i == FindDeal(coll, deal_doc.deal_id) IN
    IF i = 0 THEN Append(coll, deal_doc) ELSE [coll EXCEPT ![i] = deal_doc]

\* update_one({"deal_id": deal_id}, {"$set": {"status": status, ...}})
SetDealStatus(coll, deal_id, status) ==
    LET i == FindDeal(coll, deal_id) IN
    IF i = 0 THEN coll ELSE [coll EXCEPT ![i].status = status]

\* A reservation that records the deal and not the buyer.
ReserveOfferAnonymous(doc, deal_id, buyer, timeout_days) ==
    [doc EXCEPT !.reserved = TRUE, !.reserved_deal_id = deal_id,
                !.reserved_until = timeout_days]

\* The reservation written on the offer by create_escrow.
ReserveOffer(doc, deal_id, buyer, timeout_days) ==
    [doc EXCEPT !.reserved = TRUE, !.reserved_deal_id = deal_id,
                !.reserved_by = buyer, !.reserved_until = timeout_days]

\* A sale that leaves the reservation keys on the offer ($unset forgotten).
SellOfferKeepsKeys(doc, deal_id) ==
    [doc EXCEPT !.reserved = FALSE, !.sold = TRUE, !.sold_deal_id = deal_id]

\* The offer update of confirm_payment.
SellOffer(doc, deal_id) ==
    [doc EXCEPT !.reserved = FALSE, !.sold = TRUE, !.sold_deal_id = deal_id,
                !.reserved_deal_id = NoNum, !.reserved_by = Missing,
                !.reserved_until = NoNum]

\* The offer update of refund_payment.
ReleaseOffer(doc) ==
    [doc EXCEPT !.reserved = FALSE, !.reserved_deal_id = NoNum,
                !.reserved_by = Missing, !.reserved_until = NoNum]

\* A status test that lets a deal under refund through.
DealIsFrozenLax(deal) == deal.status # "released"

\* The status test of confirm_payment and refund_payment.
DealIsFrozen(deal) == deal.status = "frozen"

\* The reservation test of create_escrow: product.get("reserved").
OfferIsReserved(doc) == doc.reserved

\* ------------------------------------------------------ request payloads
Num(tenths) == [kind |-> "num", tenths |-> tenths]
Text == [kind |-> "text", tenths |-> 0]
Absent == [kind |-> "missing", tenths |-> 0]

\* int(x) of a number: truncation towards zero.
Trunc(tenths) ==
    IF tenths >= 0 THEN tenths \div 10 ELSE -((-tenths) \div 10)

\* int(payload.get("timeout_days", 7)); NoNum stands for the ValueError of
\* int() on a text that is no number.
TimeoutDays(value) ==
    CASE value.kind = "missing" -> DefaultTimeoutDays
      [] value.kind = "num" -> Trunc(value.tenths)
      [] OTHER -> NoNum

IntRaises(value) == value.kind = "text"

\* float(amount_ton) raises on a missing key and on a text that is no number.
FloatRaises(value) == value.kind # "num"

Payload(product_id, buyer, amount, timeout) ==
    [product_id |-> product_id, buyer_address |-> buyer,
     amount_ton |-> amount, timeout_days |-> timeout]

\* Well-formed requests on the two offers by two buyers.
GoodPayloads ==
    {Payload(p, b, Num(10), Num(70)) : p \in {"p1", "p2"}, b \in {"b1", "b2"}}

\* Requests with one thing wrong, or odd, each.
OddPayloads ==
    {Payload("", "b1", Num(10), Num(70)),
     Payload("p9", "b1", Num(10), Num(70)),
     Payload("p1", "", Num(10), Num(70)),
     Payload("p1", "b1", Num(0), Num(70)),
     Payload("p1", "b1", Text, Num(70)),
     Payload("p1", "b1", Absent, Num(70)),
     Payload("p1", "b1", Num(10), Num(0)),
     Payload("p1", "b1", Num(10), Num(25)),
     Payload("p1", "b1", Num(10), Text),
     Payload("p1", "b1", Num(10), Absent),
     Payload("p9", "b1", Num(10), Num(0))}

Payloads == GoodPayloads \cup OddPayloads

\* Deal ids a confirm or refund request may name: those of the deals the
\* well-formed payloads create, and one that no deal has.
UnknownDeal == DealHash("", 0, 0)
DealIds ==
    {DealHash(p.buyer_address, ToNano(p.amount_ton.tenths),
              TimeoutDays(p.timeout_days)) : p \in GoodPayloads}
        \cup {UnknownDeal}

\* ------------------------------------------------------- trust documents
\* Weights are counted in tenths: 1 is 0.1 and 10 is 1.0.
MinWeight == 1
MaxWeight == 10

\* max(0.1, min(1.0, float(weight)))
Min2(a, b) == IF b < a THEN b ELSE a
Max2(a, b) == IF b > a THEN b ELSE a

\* A clamp with the upper limit only.
ClampUpperOnly(weight) == Min2(MaxWeight, weight)

Clamp(weight) == Max2(MinWeight, Min2(MaxWeight, weight))

\* trust_doc of add_trust.
TrustDoc(source, target, weight) ==
    [source |-> source, target |-> target, weight |-> Clamp(weight),
     timestamp |-> "2025-04-05T12:00:00Z"]

\* await db.trust_log.insert_one(trust_doc)
AddTrustOn(coll, source, target, weight) ==
    Append(coll, TrustDoc(source, target, weight))

\* Position of the first edge from source to target, 0 when there is none.
FindEdge(coll, source, target) ==
    IF \E i \in 1..Len(coll) : coll[i].source = source /\ coll[i].target = target
    THEN CHOOSE i \in 1..Len(coll) :
            /\ coll[i].source = source /\ coll[i].target = target
            /\ \A j \in 1..(i - 1) :
                   ~(coll[j].source = source /\ coll[j].target = target)
    ELSE 0

\* A lookup with the two ends of the edge exchanged.
GetDirectTrustReversed(coll, source, target) ==
    LET i == FindEdge(coll, target, source) IN
    IF i = 0 THEN 0 ELSE coll[i].weight

\* get_direct_trust: float(doc["weight"]) if doc else 0.0
GetDirectTrust(coll, source, target) ==
    LET i == FindEdge(coll, source, target) IN
    IF i = 0 THEN 0 ELSE coll[i].weight

\* The trust document of index_trust: the weight as it is in the activity,
\* the timestamp obj.get("issued") or activity.get("published").
HubTrustDoc(activity) ==
    [source |-> activity.actor, target |-> activity.object.target,
     weight |-> activity.object.weight,
     timestamp |-> IF activity.object.issued # Missing
                   THEN activity.object.issued
                   ELSE activity.published]

\* db.hub_trust_log.update_one({"source": .., "target": ..}, {"$set": trust},
\* upsert=True)
IndexTrustOn(coll, activity) ==
    LET doc == HubTrustDoc(activity)
        i == FindEdge(coll, doc.source, doc.target)
    IN IF i = 0 THEN Append(coll, doc) ELSE [coll EXCEPT ![i] = doc]

\* --------------------------------------------------------------- state
VARIABLES
    hub_offers,     \* the hub_offers collection, documents in insertion order
    hub_deals,      \* the hub_deals collection, documents in insertion order
    handlers,       \* the escrow request handlers: position and locals
    requests,       \* number of escrow requests accepted so far
    hub_trust_log,  \* the hub_trust_log collection, written by index_trust
    trust_log,      \* the trust_log collection, written by add_trust
    score_call,     \* the compute_trust_score call in progress
    search_out,     \* the last answer of search_products
    fanout,         \* the replicate_to_peers call in progress
    inbox,          \* the request of the /inbox route in progress
    net             \* a peer hub: its stores and what its hub inbox has done

vars == <<hub_offers, hub_deals, handlers, requests, hub_trust_log, trust_log,
          score_call, search_out, fanout, inbox, net>>

\* The state of the trust scorer, the search and the replicator.
others == <<trust_log, score_call, search_out, fanout, inbox, net>>

\* A handler with no request.  called is the provider operation the handler
\* has invoked, wrote the number of storage writes it has made.
Idle ==
    [pc |-> "idle", op |-> "none", payload |-> Payload(Missing, Missing, Absent, Absent),
     product_id |-> Missing, deal_id |-> NoNum, timeout_days |-> NoNum,
     seller |-> NoActor, result |-> "none", wrote |-> 0, called |-> "none"]

\* No compute_trust_score call, no answer of search, no replication.
NoCall ==
    [stack |-> << >>, returned |-> FALSE, result |-> 0,
     source |-> Missing, target |-> Missing, depth |-> 0]
NoSearch ==
    [status |-> "none", trust_service |-> TRUE, products |-> << >>, k |-> 0,
     lookups |-> << >>, results |-> << >>,
     query |-> [q |-> << >>, tag |-> << >>, min_price |-> NoNum,
                max_price |-> NoNum, limit |-> 0],
     matched |-> << >>]
NoFanout ==
    [pc |-> "idle", activity |-> Missing, hubs |-> << >>, next |-> 0,
     log |-> << >>, raised |-> FALSE]

\* No request of the /inbox route yet.
NoInbox == [pc |-> "idle", activity |-> Missing]

\* The peer hub with empty stores: received is the set of the ids of the
\* activities its hub inbox has handled, attempts the deliveries it has made
\* in turn.
NoNet ==
    [peer_offers |-> << >>, peer_trust_log |-> << >>, received |-> {},
     attempts |-> << >>]

Init ==
    /\ hub_offers = << >>
    /\ hub_deals = << >>
    /\ handlers = [h \in Handlers |-> Idle]
    /\ requests = 0
    /\ hub_trust_log = << >>
    /\ trust_log = << >>
    /\ score_call = NoCall
    /\ search_out = NoSearch
    /\ fanout = NoFanout
    /\ inbox = NoInbox
    /\ net = NoNet

\* The handler returns or raises: result is what the caller gets.
Finished(rec, result) == [rec EXCEPT !.pc = "done", !.result = result]

\* A request is taken by the first free handler.
CanStart(h) ==
    /\ handlers[h].pc = "idle"
    /\ \A g \in Handlers : g < h => handlers[g].pc # "idle"
    /\ requests < MaxRequests

\* ------------------------------------------------------------- inbox
\* hub_inbox: classify by type and index; index_offer is one awaited upsert.
HubInbox(activity) ==
    /\ hub_offers' = IF activity.type = "Offer"
                     THEN IndexOfferOn(hub_offers, activity)
                     ELSE hub_offers
    /\ hub_trust_log' = IF activity.type = "fedmarket:Trust"
                        THEN IndexTrustOn(hub_trust_log, activity)
                        ELSE hub_trust_log
    /\ UNCHANGED <<hub_deals, handlers, requests, others>>

\* ------------------------------------------------------- create_escrow
\* The outcome of the code before the first await: "" when the request goes
\* on to the storage.  An int() that raises is not caught; the other
\* failures are answered with 400.
CreateValidation(payload) ==
    IF IntRaises(payload.timeout_days) THEN "ServerError"
    ELSE IF payload.product_id = "" \/ payload.product_id = Missing
         THEN "InvalidArgument"
    ELSE IF payload.buyer_address = "" \/ payload.buyer_address = Missing
         THEN "InvalidArgument"
    ELSE IF FloatRaises(payload.amount_ton) THEN "InvalidArgument"
    ELSE IF payload.amount_ton.tenths <= 0 THEN "InvalidArgument"
    ELSE ""

\* Read the payload, coerce and validate.
CreateStart(h, payload) ==
    /\ CanStart(h)
    /\ requests' = requests + 1
    /\ LET rec == [Idle EXCEPT !.op = "create", !.payload = payload,
                               !.product_id = payload.product_id,
                               !.timeout_days = TimeoutDays(payload.timeout_days)]
           outcome == CreateValidation(payload)
       IN handlers' = [handlers EXCEPT ![h] =
            IF outcome # "" THEN Finished(rec, outcome)
            ELSE [rec EXCEPT !.pc = "find"]]
    /\ UNCHANGED <<hub_offers, hub_deals, hub_trust_log, others>>

\* product = await db.hub_offers.find_one({"id": product_id}) and the two
\* tests on it.
CreateFind(h) ==
    /\ handlers[h].op = "create"
    /\ handlers[h].pc = "find"
    /\ LET rec == handlers[h]
           i == FindOffer(hub_offers, rec.product_id)
       IN handlers' = [handlers EXCEPT ![h] =
            IF i = 0
            THEN Finished(rec, "NotFound")
            ELSE IF OfferIsReserved(hub_offers[i])
            THEN Finished(rec, "Conflict")
            ELSE [rec EXCEPT !.pc = "freeze", !.seller = hub_offers[i].seller]]
    /\ UNCHANGED <<hub_offers, hub_deals, requests, hub_trust_log, others>>

\* deal = await _payment_service.create_escrow_deal(...): the ValueError of
\* its validation is answered with 400.
CreateFreeze(h) ==
    /\ handlers[h].op = "create"
    /\ handlers[h].pc = "freeze"
    /\ LET rec == [handlers[h] EXCEPT !.called = "freeze"]
           buyer == rec.payload.buyer_address
           amount == rec.payload.amount_ton.tenths
       IN handlers' = [handlers EXCEPT ![h] =
            IF FreezeRejects(buyer, amount, rec.timeout_days)
            THEN Finished(rec, "InvalidArgument")
            ELSE [rec EXCEPT !.pc = "write_deal",
                             !.deal_id = DealHash(buyer, ToNano(amount),
                                                  rec.timeout_days)]]
    /\ UNCHANGED <<hub_offers, hub_deals, requests, hub_trust_log, others>>

\* await db.hub_deals.update_one({"deal_id": ...}, {"$set": deal_doc}, upsert=True)
CreateWriteDeal(h) ==
    /\ handlers[h].op = "create"
    /\ handlers[h].pc = "write_deal"
    /\ LET rec == handlers[h] IN
       /\ hub_deals' = UpsertDeal(hub_deals,
              DealDoc(rec.deal_id, rec.product_id, rec.seller,
                      rec.payload.buyer_address, rec.payload.amount_ton.tenths,
                      rec.timeout_days))
       /\ handlers' = [handlers EXCEPT ![h] =
              [rec EXCEPT !.pc = "write_offer", !.wrote = rec.wrote + 1]]
    /\ UNCHANGED <<hub_offers, requests, hub_trust_log, others>>

\* update_one({"id": product_id}, update) without upsert: the first document
\* with that id becomes the updated one, a collection without one is left as
\* it is.
UpdateOffer(coll, product_id, updated) ==
    LET i == FindOffer(coll, product_id) IN
    IF i = 0 THEN coll ELSE [coll EXCEPT ![i] = updated]

\* await db.hub_offers.update_one({"id": product_id}, {"$set": {...}}) and the
\* return of the frozen deal.
CreateWriteOffer(h) ==
    /\ handlers[h].op = "create"
    /\ handlers[h].pc = "write_offer"
    /\ LET rec == handlers[h] IN
       /\ hub_offers' = UpdateOffer(hub_offers, rec.product_id,
              ReserveOffer(hub_offers[FindOffer(hub_offers, rec.product_id)],
                           rec.deal_id, rec.payload.buyer_address,
                           rec.timeout_days))
       /\ handlers' = [handlers EXCEPT ![h] =
              Finished([rec EXCEPT !.wrote = rec.wrote + 1], "frozen")]
    /\ UNCHANGED <<hub_deals, requests, hub_trust_log, others>>

\* ------------------------------------- confirm_payment, refund_payment
\* The two handlers have the same shape; op is "confirm" or "refund".
SettleOps == {"confirm", "refund"}

\* The provider function each handler awaits.
ProviderCall(op) == IF op = "confirm" THEN "settle" ELSE "refund"

\* The status each handler writes on the deal and answers with.
StatusAfter(op) == IF op = "confirm" THEN "released" ELSE "refund_requested"

\* The request names a deal id.
SettleStart(h, op, deal_id) ==
    /\ CanStart(h)
    /\ requests' = requests + 1
    /\ handlers' = [handlers EXCEPT ![h] =
          [Idle EXCEPT !.pc = "find", !.op = op, !.deal_id = deal_id]]
    /\ UNCHANGED <<hub_offers, hub_deals, hub_trust_log, others>>

\* deal = await db.hub_deals.find_one({"deal_id": deal_id}) and the two tests.
SettleFind(h, op) ==
    /\ handlers[h].op = op
    /\ handlers[h].pc = "find"
    /\ LET rec == handlers[h]
           i == FindDeal(hub_deals, rec.deal_id)
       IN handlers' = [handlers EXCEPT ![h] =
            IF i = 0
            THEN Finished(rec, "NotFound")
            ELSE IF ~DealIsFrozen(hub_deals[i])
            THEN Finished(rec, "Conflict")
            ELSE [rec EXCEPT !.pc = "provider",
                             !.product_id = hub_deals[i].product_id]]
    /\ UNCHANGED <<hub_offers, hub_deals, requests, hub_trust_log, others>>

\* A handler that writes the new status before it awaits the provider.
SettleProviderAfterWrite(h, op) ==
    /\ handlers[h].op = op
    /\ handlers[h].pc = "provider"
    /\ LET rec == [handlers[h] EXCEPT !.called = ProviderCall(op)] IN
       \E raises \in BOOLEAN :
          handlers' = [handlers EXCEPT ![h] =
              IF raises THEN Finished(rec, "ServerError")
              ELSE [rec EXCEPT !.pc = "write_deal"]]
    /\ hub_deals' = SetDealStatus(hub_deals, handlers[h].deal_id, StatusAfter(op))
    /\ UNCHANGED <<hub_offers, requests, hub_trust_log, others>>

\* result = await confirm_delivery(deal_id) / request_refund(deal_id).  The
\* call is the boundary to the payment provider: it returns a receipt or
\* raises, and neither handler catches the exception.
SettleProvider(h, op) ==
    /\ handlers[h].op = op
    /\ handlers[h].pc = "provider"
    /\ LET rec == [handlers[h] EXCEPT !.called = ProviderCall(op)] IN
       \E raises \in BOOLEAN :
          handlers' = [handlers EXCEPT ![h] =
              IF raises THEN Finished(rec, "ServerError")
              ELSE [rec EXCEPT !.pc = "write_deal"]]
    /\ UNCHANGED <<hub_offers, hub_deals, requests, hub_trust_log, others>>

\* await db.hub_deals.update_one({"deal_id": deal_id}, {"$set": {"status": ...}})
SettleWriteDeal(h, op) ==
    /\ handlers[h].op = op
    /\ handlers[h].pc = "write_deal"
    /\ LET rec == handlers[h] IN
       /\ hub_deals' = SetDealStatus(hub_deals, rec.deal_id, StatusAfter(op))
       /\ handlers' = [handlers EXCEPT ![h] =
              [rec EXCEPT !.pc = "write_offer", !.wrote = rec.wrote + 1]]
    /\ UNCHANGED <<hub_offers, requests, hub_trust_log, others>>

\* await db.hub_offers.update_one({"id": deal["product_id"]}, ...), the final
\* read of the deal and the return.
SettleWriteOffer(h, op) ==
    /\ handlers[h].op = op
    /\ handlers[h].pc = "write_offer"
    /\ LET rec == handlers[h]
           doc == hub_offers[FindOffer(hub_offers, rec.product_id)]
       IN
       /\ hub_offers' = UpdateOffer(hub_offers, rec.product_id,
              IF op = "confirm" THEN SellOffer(doc, rec.deal_id)
              ELSE ReleaseOffer(doc))
       /\ handlers' = [handlers EXCEPT ![h] =
              Finished([rec EXCEPT !.wrote = rec.wrote + 1], StatusAfter(op))]
    /\ UNCHANGED <<hub_deals, requests, hub_trust_log, others>>

ConfirmStart(h, deal_id) == SettleStart(h, "confirm", deal_id)
ConfirmFind(h) == SettleFind(h, "confirm")
ConfirmProvider(h) == SettleProvider(h, "confirm")
ConfirmWriteDeal(h) == SettleWriteDeal(h, "confirm")
ConfirmWriteOffer(h) == SettleWriteOffer(h, "confirm")

RefundStart(h, deal_id) == SettleStart(h, "refund", deal_id)
RefundFind(h) == SettleFind(h, "refund")
RefundProvider(h) == SettleProvider(h, "refund")
RefundWriteDeal(h) == SettleWriteDeal(h, "refund")
RefundWriteOffer(h) == SettleWriteOffer(h, "refund")

\* The response has been sent; the handler is free for the next request.
Return(h) ==
    /\ handlers[h].pc = "done"
    /\ handlers' = [handlers EXCEPT ![h] = Idle]
    /\ UNCHANGED <<hub_offers, hub_deals, requests, hub_trust_log, others>>

\* ------------------------------------------------------ specification
Next ==
    \/ \E a \in Activities : HubInbox(a)
    \/ \E h \in Handlers, p \in Payloads : CreateStart(h, p)
    \/ \E h \in Handlers : CreateFind(h)
    \/ \E h \in Handlers : CreateFreeze(h)
    \/ \E h \in Handlers : CreateWriteDeal(h)
    \/ \E h \in Handlers : CreateWriteOffer(h)
    \/ \E h \in Handlers, d \in DealIds : ConfirmStart(h, d)
    \/ \E h \in Handlers : ConfirmFind(h)
    \/ \E h \in Handlers : ConfirmProvider(h)
    \/ \E h \in Handlers : ConfirmWriteDeal(h)
    \/ \E h \in Handlers : ConfirmWriteOffer(h)
    \/ \E h \in Handlers, d \in DealIds : RefundStart(h, d)
    \/ \E h \in Handlers : RefundFind(h)
    \/ \E h \in Handlers : RefundProvider(h)
    \/ \E h \in Handlers : RefundWriteDeal(h)
    \/ \E h \in Handlers : RefundWriteOffer(h)
    \/ \E h \in Handlers : Return(h)

Spec == Init /\ [][Next]_vars


\* ------------------------------------------------------- trust scorer
\* Number of edges add_trust writes in one behaviour.
MaxEdges == 3
\* Largest depth compute_trust_score is called with.
MaxDepth == 3

\* depth: int = 3
DefaultDepth == 3

Actors == {"a", "b", "c"}

RECURSIVE Pow10(_)
Pow10(n) == IF n = 0 THEN 1 ELSE 10 * Pow10(n - 1)

\* Scores are counted in units of 1/Scale, fine enough for every product of
\* weights and dampings along a path of MaxDepth hops to be a whole number
\* of units.  A weight of one tenth is WeightUnit units.
Scale == Pow10(2 * MaxDepth - 1)
WeightUnit == Scale \div 10

\* relay_weight * path_trust * 0.8, relay_weight in tenths.
Damped(relay_weight, path_trust) == (relay_weight * path_trust * 8) \div 100

\* A running total that adds the paths up.
AccumulateSum(total, candidate) == total + candidate

\* total_trust = max(total_trust, ...)
Accumulate(total, candidate) == Max2(total, candidate)

\* A scorer that looks at the self case before the depth.
ScoreBaseSelfFirst(source, target, depth) ==
    IF source = target THEN Scale
    ELSE IF depth = 0 THEN 0
    ELSE NoNum

\* The two tests at the head of compute_trust_score, in their order: the
\* value returned there, NoNum when the call goes on.
ScoreBase(source, target, depth) ==
    IF depth = 0 THEN 0
    ELSE IF source = target THEN Scale
    ELSE NoNum

\* A recursive call that keeps the depth.
ChildDepthSame(depth) == depth

\* compute_trust_score(relay["target"], target, depth - 1)
ChildDepth(depth) == depth - 1

RECURSIVE ComputeTrustScore(_, _, _, _)
RECURSIVE RelayLoop(_, _, _, _, _, _)

\* async for relay in db.trust_log.find({"source": source}): the documents
\* from position i on, total_trust so far in total.
RelayLoop(coll, source, target, depth, i, total) ==
    IF i > Len(coll) THEN total
    ELSE IF coll[i].source # source
    THEN RelayLoop(coll, source, target, depth, i + 1, total)
    ELSE LET path_trust == ComputeTrustScore(coll, coll[i].target, target, ChildDepth(depth))
         IN RelayLoop(coll, source, target, depth, i + 1,
                IF path_trust > 0
                THEN Accumulate(total, Damped(coll[i].weight, path_trust))
                ELSE total)

\* compute_trust_score(source, target, depth)
ComputeTrustScore(coll, source, target, depth) ==
    IF ScoreBase(source, target, depth) # NoNum
    THEN ScoreBase(source, target, depth)
    ELSE LET direct == GetDirectTrust(coll, source, target) IN
         IF direct > 0 THEN direct * WeightUnit
         ELSE RelayLoop(coll, source, target, depth, 1, 0)

\* Trust statements given to add_trust: (source, target, weight in tenths),
\* weights inside and outside [0.1, 1.0].
TrustInputs ==
    {<<"a", "b", 10>>, <<"a", "b", 5>>, <<"b", "c", 10>>, <<"a", "c", 2>>,
     <<"a", "a", 0>>, <<"b", "a", 50>>, <<"c", "b", -3>>}

\* Inbound fedmarket:Trust activities (make_trust), with any weight.
TrustActivity(id, actor, target, weight, issued) ==
    [type |-> "fedmarket:Trust", id |-> id, actor |-> actor,
     object |-> [target |-> target, weight |-> weight, issued |-> issued],
     published |-> "2025-01-01"]

TrustActivities ==
    {TrustActivity("t1", "a", "b", 5, "2025-01-02"),
     TrustActivity("t2", "a", "b", 50, Missing),
     TrustActivity("t3", "b", "c", 0, "2025-01-02")}

\* add_trust(source, target, weight)
AddTrust(source, target, weight) ==
    /\ Len(trust_log) < MaxEdges
    /\ trust_log' = AddTrustOn(trust_log, source, target, weight)
    /\ UNCHANGED <<hub_offers, hub_deals, handlers, requests, hub_trust_log,
                   score_call, search_out, fanout, inbox, net>>

\* The trust store and the inbox under trust statements.
NextTrust ==
    \/ \E e \in TrustInputs : AddTrust(e[1], e[2], e[3])
    \/ \E a \in TrustActivities \cup {Like} : HubInbox(a)

SpecTrust == Init /\ [][NextTrust]_vars

\* ------------------------------------------- compute_trust_score, stepwise
\* One call of compute_trust_score as the interpreter runs it: a stack of
\* frames, the top one running, each await a step.  A frame is at "enter"
\* before its tests and its direct lookup, at "loop" inside the relay loop,
\* with i the position of the cursor and total its total_trust.
Frame(source, target, depth) ==
    [source |-> source, target |-> target, depth |-> depth, pc |-> "enter",
     i |-> 0, total |-> 0]

\* Frames the interpreter is given room for: a call of depth d needs d + 1.
MaxStack == MaxDepth + 1

Top == score_call.stack[Len(score_call.stack)]

\* Position of the next document of the cursor find({"source": source}) at
\* or after position i, 0 when the cursor is exhausted.
NextRelay(coll, source, i) ==
    IF \E j \in i..Len(coll) : coll[j].source = source
    THEN CHOOSE j \in i..Len(coll) :
            /\ coll[j].source = source
            /\ \A k \in i..(j - 1) : coll[k].source # source
    ELSE 0

\* `return value` of the top frame: the caller's frame takes it as
\* path_trust and moves its cursor on; the outermost return ends the call.
ScoreReturn(value) ==
    LET stack == score_call.stack
        n == Len(stack)
    IN  IF n = 1
        THEN [score_call EXCEPT !.stack = << >>, !.returned = TRUE,
                                !.result = value]
        ELSE LET caller == stack[n - 1]
                 total == IF value > 0
                          THEN Accumulate(caller.total,
                                          Damped(trust_log[caller.i].weight, value))
                          ELSE caller.total
             IN [score_call EXCEPT !.stack =
                    Append(SubSeq(stack, 1, n - 2),
                           [caller EXCEPT !.total = total, !.i = caller.i + 1])]

\* A caller invokes compute_trust_score(source, target, depth).
ScoreStart(source, target, depth) ==
    /\ score_call.stack = << >>
    /\ score_call' = [stack |-> <<Frame(source, target, depth)>>,
                      returned |-> FALSE, result |-> 0,
                      source |-> source, target |-> target, depth |-> depth]
    /\ UNCHANGED <<hub_offers, hub_deals, handlers, requests, hub_trust_log,
                   trust_log, search_out, fanout, inbox, net>>

\* Lines 42-52: the depth test, the self test, the direct lookup.
ScoreEnter ==
    /\ score_call.stack # << >>
    /\ Top.pc = "enter"
    /\ LET base == ScoreBase(Top.source, Top.target, Top.depth)
           direct == GetDirectTrust(trust_log, Top.source, Top.target)
           n == Len(score_call.stack)
       IN score_call' =
            IF base # NoNum THEN ScoreReturn(base)
            ELSE IF direct > 0 THEN ScoreReturn(direct * WeightUnit)
            ELSE [score_call EXCEPT !.stack[n] =
                     [Top EXCEPT !.pc = "loop", !.i = 1, !.total = 0]]
    /\ UNCHANGED <<hub_offers, hub_deals, handlers, requests, hub_trust_log,
                   trust_log, search_out, fanout, inbox, net>>

\* Lines 53-60: the cursor gives its next relay and the frame calls itself
\* on it, or the cursor is exhausted and the frame returns total_trust.
ScoreLoop ==
    /\ score_call.stack # << >>
    /\ Top.pc = "loop"
    /\ LET j == NextRelay(trust_log, Top.source, Top.i)
           n == Len(score_call.stack)
       IN IF j = 0
          THEN score_call' = ScoreReturn(Top.total)
          ELSE /\ n < MaxStack
               /\ score_call' = [score_call EXCEPT !.stack =
                      Append([score_call.stack EXCEPT ![n] = [Top EXCEPT !.i = j]],
                             Frame(trust_log[j].target, Top.target,
                                   ChildDepth(Top.depth)))]
    /\ UNCHANGED <<hub_offers, hub_deals, handlers, requests, hub_trust_log,
                   trust_log, search_out, fanout, inbox, net>>

\* Trust statements that build cycles, a self-loop and a way to c.
ScoreInputs ==
    {<<"a", "b", 10>>, <<"b", "a", 50>>, <<"a", "a", 0>>, <<"b", "c", 10>>}

ScoreStep == ScoreEnter \/ ScoreLoop

\* Calls of compute_trust_score while add_trust writes.
NextScore ==
    \/ \E e \in ScoreInputs : AddTrust(e[1], e[2], e[3])
    \/ \E source, target \in Actors, depth \in 0..MaxDepth :
           ScoreStart(source, target, depth)
    \/ ScoreEnter
    \/ ScoreLoop

SpecScore == Init /\ [][NextScore]_vars

\* The event loop resumes a coroutine whose awaited storage call has
\* answered: a step of the running call that stays possible is taken.
FairSpecScore == SpecScore /\ WF_vars(ScoreStep)

\* ------------------------------------------------------ search_products
\* A third offer, cheaper than OfferA and of another seller.
OfferC == [type |-> "Offer", id |-> "act5", obj_id |-> "p3", name |-> "mat",
           price |-> 80, currency |-> "TON", actor |-> Bob,
           tag |-> <<TagMarket>>, published |-> 1]

SearchActivities == {OfferA, OfferB, OfferC}

\* The characters of the names the activities carry.
Chars(text) ==
    CASE text = "lamp" -> <<"l", "a", "m", "p">>
      [] text = "rug" -> <<"r", "u", "g">>
      [] text = "mat" -> <<"m", "a", "t">>
      [] OTHER -> << >>

\* "$options": "i"
Lower(c) ==
    CASE c = "A" -> "a" [] c = "L" -> "l" [] c = "M" -> "m" [] OTHER -> c

\* {"$regex": q, "$options": "i"} for a q without regex operators: q occurs
\* in the text, letter case aside.
RegexSearch(q, text) ==
    \E start \in 1..(Len(text) - Len(q) + 1) :
        \A i \in 1..Len(q) : Lower(text[start + i - 1]) = Lower(q[i])

\* A query in which the upper price bound replaces the lower one.
MatchesLastBound(doc, q, tag, min_price, max_price) ==
    /\ (q # << >>) =>
          (RegexSearch(q, Chars(doc.name)) \/ RegexSearch(q, << >>))
    /\ (tag # << >>) => (\E i \in 1..Len(doc.tags) : doc.tags[i] = LStrip(tag))
    /\ IF max_price # NoNum THEN doc.price <= max_price
       ELSE (min_price # NoNum) => doc.price >= min_price

\* The query of search_products as a test of one document.  None of the
\* activities carries a description: the indexed description is "".
Matches(doc, q, tag, min_price, max_price) ==
    /\ (q # << >>) =>
          (RegexSearch(q, Chars(doc.name)) \/ RegexSearch(q, << >>))
    /\ (tag # << >>) => (\E i \in 1..Len(doc.tags) : doc.tags[i] = LStrip(tag))
    /\ (min_price # NoNum) => doc.price >= min_price
    /\ (max_price # NoNum) => doc.price <= max_price

\* The orders in which find(query).sort("price", 1) may give the matching
\* documents: ascending price, documents of equal price in any order.
PriceOrders(coll, matching) ==
    {order \in [1..Cardinality(matching) -> matching] :
        /\ \A i, j \in DOMAIN order : i # j => order[i] # order[j]
        /\ \A i, j \in DOMAIN order :
               i < j => coll[order[i]].price <= coll[order[j]].price}

\* .limit(limit)
Limit(seq, limit) == SubSeq(seq, 1, Min2(Len(seq), limit))

\* A reputation looked up from a designated evaluator, Bob, to the seller.
SellerReputationByEvaluator(coll, seller, trust_service, raises) ==
    IF ~trust_service \/ raises THEN Scale \div 2
    ELSE LET score == Max2(0, Min2(Scale,
                          ComputeTrustScore(coll, Bob, seller, DefaultDepth)))
         IN (Scale \div 2) + ((score - (Scale \div 2)) * 8) \div 10

\* A reputation of 0.0 where the lookup has failed.
SellerReputationZeroOnFailure(coll, seller, trust_service, raises) ==
    IF ~trust_service \/ raises THEN 0
    ELSE LET score == Max2(0, Min2(Scale,
                          ComputeTrustScore(coll, seller, seller, DefaultDepth)))
         IN (Scale \div 2) + ((score - (Scale \div 2)) * 8) \div 10

\* _seller_reputation: 0.5 without the trust service or when the lookup
\* raises, else the score bounded into [0, 1] and softened towards 0.5.
SellerReputation(coll, seller, trust_service, raises) ==
    IF ~trust_service \/ raises THEN Scale \div 2
    ELSE LET score == Max2(0, Min2(Scale,
                          ComputeTrustScore(coll, seller, seller, DefaultDepth)))
         IN (Scale \div 2) + ((score - (Scale \div 2)) * 8) \div 10

\* p["rank_score"] = p["price"] * (1.5 - trust_score)
RankScore(price, trust_score) == price * ((15 * Scale) \div 10 - trust_score)

RECURSIVE SortByRank(_)
\* products.sort(key=rank_score): ascending, equal keys keep their order.
SortByRank(products) ==
    IF products = << >> THEN << >>
    ELSE LET n == Len(products)
             sorted == SortByRank(SubSeq(products, 1, n - 1))
             last == products[n]
             at == Cardinality({i \in 1..(n - 1) :
                                   sorted[i].rank_score <= last.rank_score})
         IN SubSeq(sorted, 1, at) \o <<last>> \o SubSeq(sorted, at + 1, n - 1)

\* The products returned as the query gave them.
RankedUnsorted(products) == products

\* Line 143.
Ranked(products) == SortByRank(products)

\* Words, tags and prices of the requests.
Queries == {<< >>, <<"L", "A">>}
Tags == {<< >>, TagMarket}
MinPrices == {NoNum, 80}
MaxPrices == {NoNum, 80}
Limits == {2, 20}

\* Trust statements about the sellers.
SellerTrustInputs == {<<Bob, Alice, 2>>, <<Alice, Alice, 0>>}

\* GET /hub/search up to the answer of the query: the products, in price
\* order and cut at limit; matched is what the query matches, in the same
\* order, before the cut.  trust_service tells whether the deployment has
\* the trust service.
SearchStart(q, tag, min_price, max_price, limit, trust_service) ==
    /\ search_out.status \in {"none", "done"}
    /\ LET matching == {i \in 1..Len(hub_offers) :
                           Matches(hub_offers[i], q, tag, min_price, max_price)}
       IN \E order \in PriceOrders(hub_offers, matching) :
            search_out' =
                [status |-> "ranking", trust_service |-> trust_service,
                 products |-> Limit([i \in DOMAIN order |->
                                        [offer |-> hub_offers[order[i]],
                                         reputation_score |-> NoNum,
                                         rank_score |-> NoNum]], limit),
                 k |-> 1, lookups |-> << >>, results |-> << >>,
                 query |-> [q |-> q, tag |-> tag, min_price |-> min_price,
                            max_price |-> max_price, limit |-> limit],
                 matched |-> [i \in DOMAIN order |-> hub_offers[order[i]]]]
    /\ UNCHANGED <<hub_offers, hub_deals, handlers, requests, hub_trust_log,
                   trust_log, score_call, fanout, inbox, net>>

\* One turn of the loop of lines 137-141: the reputation of the seller of
\* the next product, with or without a failure of the lookup.
SearchRank ==
    /\ search_out.status = "ranking"
    /\ search_out.k <= Len(search_out.products)
    /\ \E raises \in BOOLEAN :
          LET k == search_out.k
              p == search_out.products[k]
              trust_score == SellerReputation(trust_log, p.offer.seller,
                                              search_out.trust_service, raises)
          IN search_out' =
                [search_out EXCEPT
                    !.products[k] = [p EXCEPT
                        !.reputation_score = trust_score,
                        !.rank_score = RankScore(p.offer.price, trust_score)],
                    !.lookups = Append(@, IF ~search_out.trust_service THEN "absent"
                                          ELSE IF raises THEN "raised" ELSE "ok"),
                    !.k = k + 1]
    /\ UNCHANGED <<hub_offers, hub_deals, handlers, requests, hub_trust_log,
                   trust_log, score_call, fanout, inbox, net>>

\* Lines 143-144 and the route's answer.
SearchReturn ==
    /\ search_out.status = "ranking"
    /\ search_out.k > Len(search_out.products)
    /\ search_out' = [search_out EXCEPT !.status = "done",
                                        !.results = Ranked(search_out.products)]
    /\ UNCHANGED <<hub_offers, hub_deals, handlers, requests, hub_trust_log,
                   trust_log, score_call, fanout, inbox, net>>

\* Searches while offers are indexed and trust is added.
NextSearch ==
    \/ \E a \in SearchActivities : HubInbox(a)
    \/ \E e \in SellerTrustInputs : AddTrust(e[1], e[2], e[3])
    \/ \E q \in Queries, tag \in Tags, min_price \in MinPrices,
          max_price \in MaxPrices, limit \in Limits, trust_service \in BOOLEAN :
           SearchStart(q, tag, min_price, max_price, limit, trust_service)
    \/ SearchRank
    \/ SearchReturn

SpecSearch == Init /\ [][NextSearch]_vars

\* Offers priced 10 and 50, with OfferA, priced 100, the three of a search
\* by price.
Offer10 == [type |-> "Offer", id |-> "act6", obj_id |-> "p4", name |-> "rug",
            price |-> 10, currency |-> "TON", actor |-> Bob,
            tag |-> <<TagArt>>, published |-> 1]
Offer50 == [type |-> "Offer", id |-> "act7", obj_id |-> "p5", name |-> "mat",
            price |-> 50, currency |-> "TON", actor |-> Alice,
            tag |-> <<TagMarket>>, published |-> 1]

FilterActivities == {Offer10, Offer50, OfferA}

\* Tags with and without the "#", and price bounds below, at and above the
\* prices of the offers.
FilterTags == {<< >>, TagMarket, <<"a">>}
FilterMinPrices == {NoNum, 20, 50}
FilterMaxPrices == {NoNum, 80, 50}

\* Searches by tag and price while offers are indexed.
NextFilter ==
    \/ \E a \in FilterActivities : HubInbox(a)
    \/ \E tag \in FilterTags, min_price \in FilterMinPrices,
          max_price \in FilterMaxPrices, trust_service \in BOOLEAN :
           SearchStart(<< >>, tag, min_price, max_price, 20, trust_service)
    \/ SearchRank
    \/ SearchReturn

SpecFilter == Init /\ [][NextFilter]_vars

\* --------------------------------------------------- replicate_to_peers
\* HUB_DOMAIN of this node.
HubDomain == "https://your-ozodon-instance.com"

Hub(domain, active) == [domain |-> domain, active |-> active]

\* Contents of the hubs registry: three active peers, this node itself and
\* an inactive peer between them; two active peers; no hub at all.  Every
\* entry carries its domain.
Registries ==
    {<<Hub("https://hub1.example", TRUE), Hub(HubDomain, TRUE),
       Hub("https://hub2.example", FALSE), Hub("https://hub3.example", TRUE),
       Hub("https://hub4.example", TRUE)>>,
     <<Hub("https://hub3.example", TRUE), Hub("https://hub1.example", TRUE)>>,
     << >>}

\* A test that lets this node's own entry through.
EligibleActive(hub) == hub.active

\* if hub.get("active") and hub.get("domain") != config.HUB_DOMAIN
Eligible(hub) == hub.active /\ hub.domain # HubDomain

\* What client.post(...) may do: answer 2xx, answer another status, run into
\* the timeout, fail on the network.  The last two raise.
Deliveries == {"ok", "non2xx", "timeout", "network error"}
DeliveryRaises(delivery) == delivery \in {"timeout", "network error"}

\* A loop without the try: the exception of a delivery leaves the function.
DeliveryUncaught(delivery) == DeliveryRaises(delivery)

\* try: ... except Exception: print(...) - no exception of a delivery leaves
\* the loop.
DeliveryEndsLoop(delivery) == FALSE

\* Position of the next eligible hub at or after position i, 0 when there
\* is none.
NextEligible(hubs, i) ==
    IF \E j \in i..Len(hubs) : Eligible(hubs[j])
    THEN CHOOSE j \in i..Len(hubs) :
            /\ Eligible(hubs[j])
            /\ \A k \in i..(j - 1) : ~Eligible(hubs[k])
    ELSE 0

ReplicatedActivities == {OfferA, TrustActivity("t1", "a", "b", 5, "2025-01-02")}

\* The peer hub whose stores are followed: the first hub of the registries.
PeerDomain == "https://hub1.example"

\* The activity of an id (json=activity posts the activity itself).
KnownActivities ==
    Activities \cup TrustActivities \cup SearchActivities \cup FilterActivities
ActivityOf(id) == CHOOSE a \in KnownActivities : a.id = id

\* A hub inbox that replicates what it has indexed to the hubs of its own
\* registry, this node among them.
HubInboxForwards(activity) ==
    <<[domain |-> HubDomain, activity |-> activity.id]>>

\* The deliveries hub_inbox makes after indexing: it holds no call of
\* replicate_to_peers.
HubInboxFanout(activity) == << >>

\* hub_inbox at the peer, which runs the same code on its own stores.
PeerHubInboxOn(peer, activity) ==
    [peer_offers |-> IF activity.type = "Offer"
                     THEN IndexOfferOn(peer.peer_offers, activity)
                     ELSE peer.peer_offers,
     peer_trust_log |-> IF activity.type = "fedmarket:Trust"
                        THEN IndexTrustOn(peer.peer_trust_log, activity)
                        ELSE peer.peer_trust_log,
     received |-> peer.received \cup {activity.id},
     attempts |-> peer.attempts \o HubInboxFanout(activity)]

\* The state of replicate_to_peers(activity) as its loop begins.
StartFanout(activity, hubs) ==
    [pc |-> "loop", activity |-> activity.id, hubs |-> hubs,
     next |-> 1, log |-> << >>, raised |-> FALSE]

\* replicate_to_peers(activity) with the registry load_hubs() reads.
ReplicateStart(activity, hubs) ==
    /\ fanout.pc \in {"idle", "done"}
    /\ fanout' = StartFanout(activity, hubs)
    /\ UNCHANGED <<hub_offers, hub_deals, handlers, requests, hub_trust_log,
                   trust_log, score_call, search_out, inbox, net>>

\* The loop up to and with the delivery to the next eligible hub.  A peer
\* answers 2xx after its hub inbox has handled the activity.
ReplicateDeliver ==
    /\ fanout.pc = "loop"
    /\ NextEligible(fanout.hubs, fanout.next) # 0
    /\ \E delivery \in Deliveries :
          LET j == NextEligible(fanout.hubs, fanout.next)
              attempt == [domain |-> fanout.hubs[j].domain, delivery |-> delivery]
          IN /\ fanout' =
                  IF DeliveryEndsLoop(delivery)
                  THEN [fanout EXCEPT !.log = Append(@, attempt), !.next = j + 1,
                                      !.pc = "done", !.raised = TRUE]
                  ELSE [fanout EXCEPT !.log = Append(@, attempt), !.next = j + 1]
             /\ net' = IF delivery = "ok" /\ attempt.domain = PeerDomain
                       THEN PeerHubInboxOn(net, ActivityOf(fanout.activity))
                       ELSE net
    /\ UNCHANGED <<hub_offers, hub_deals, handlers, requests, hub_trust_log,
                   trust_log, score_call, search_out, inbox>>

\* No eligible hub is left: the function returns.
ReplicateReturn ==
    /\ fanout.pc = "loop"
    /\ NextEligible(fanout.hubs, fanout.next) = 0
    /\ fanout' = [fanout EXCEPT !.pc = "done", !.next = Len(fanout.hubs) + 1]
    /\ UNCHANGED <<hub_offers, hub_deals, handlers, requests, hub_trust_log,
                   trust_log, score_call, search_out, inbox, net>>

NextReplicate ==
    \/ \E activity \in ReplicatedActivities, hubs \in Registries :
           ReplicateStart(activity, hubs)
    \/ ReplicateDeliver
    \/ ReplicateReturn

SpecReplicate == Init /\ [][NextReplicate]_vars

\* ------------------------------------------------- the peer's hub inbox
\* POST /hub/inbox at the peer, by whatever hub delivers to it.
PeerHubInbox(activity) ==
    /\ net' = PeerHubInboxOn(net, activity)
    /\ UNCHANGED <<hub_offers, hub_deals, handlers, requests, hub_trust_log,
                   trust_log, score_call, search_out, fanout, inbox>>

\* The activities in the order of their publication: two offers of the same
\* product, another offer, two trust statements of the same pair, another
\* one.
Published ==
    <<OfferA, OfferARepriced, OfferB,
      TrustActivity("t1", "a", "b", 5, "2025-01-02"),
      TrustActivity("t2", "a", "b", 50, Missing),
      TrustActivity("t3", "b", "c", 0, "2025-01-02")>>

\* A peer under deliveries in any order and any number of times.
NextPeer == \E i \in 1..Len(Published) : PeerHubInbox(Published[i])

SpecPeer == Init /\ [][NextPeer]_vars

\* ------------------------------------------------------ the /inbox route
\* The node runs as a hub (HUB_MODE=true), as every hub route requires.
HubMode == TRUE

\* A route that takes every type for an Offer or a Trust.
AcceptsAny(atype) == TRUE

\* atype == "Offer" and config.HUB_MODE / atype == "fedmarket:Trust" and
\* config.HUB_MODE
Accepts(atype) == atype \in {"Offer", "fedmarket:Trust"} /\ HubMode

InboxActivities ==
    {OfferA, TrustActivity("t1", "a", "b", 5, "2025-01-02"), Like}

\* POST /inbox: the classification by type; every other type is answered
\* at once.
InboxStart(activity) ==
    /\ inbox.pc \in {"idle", "done"}
    /\ inbox' = [pc |-> IF Accepts(activity.type) THEN "index" ELSE "done",
                 activity |-> activity.id]
    /\ UNCHANGED <<hub_offers, hub_deals, handlers, requests, hub_trust_log,
                   trust_log, score_call, search_out, fanout, net>>

\* await index_offer(activity) / await index_trust(activity), then the call
\* of replicate_to_peers up to its loop, with the registry load_hubs reads.
InboxIndex ==
    /\ inbox.pc = "index"
    /\ LET activity == ActivityOf(inbox.activity) IN
       /\ hub_offers' = IF activity.type = "Offer"
                        THEN IndexOfferOn(hub_offers, activity)
                        ELSE hub_offers
       /\ hub_trust_log' = IF activity.type = "fedmarket:Trust"
                           THEN IndexTrustOn(hub_trust_log, activity)
                           ELSE hub_trust_log
       /\ \E hubs \in Registries : fanout' = StartFanout(activity, hubs)
    /\ inbox' = [inbox EXCEPT !.pc = "replicate"]
    /\ UNCHANGED <<hub_deals, handlers, requests, trust_log, score_call,
                   search_out, net>>

\* replicate_to_peers has returned: return {"status": "received"}
InboxReturn ==
    /\ inbox.pc = "replicate"
    /\ fanout.pc = "done"
    /\ inbox' = [inbox EXCEPT !.pc = "done"]
    /\ UNCHANGED <<hub_offers, hub_deals, handlers, requests, hub_trust_log,
                   trust_log, score_call, search_out, fanout, net>>

InboxStep == InboxIndex \/ ReplicateDeliver \/ ReplicateReturn \/ InboxReturn

\* The /inbox route with its fan-out, and this node's own hub inbox under
\* the deliveries of other hubs.
NextInbox ==
    \/ \E activity \in InboxActivities : InboxStart(activity)
    \/ InboxIndex
    \/ ReplicateDeliver
    \/ ReplicateReturn
    \/ InboxReturn
    \/ \E activity \in InboxActivities : HubInbox(activity)

SpecInbox == Init /\ [][NextInbox]_vars

\* The event loop resumes the request when the storage or the peer has
\* answered or the timeout of 10 seconds has passed.
FairSpecInbox == SpecInbox /\ WF_vars(InboxStep)

\* ------------------------------------------------------------ readers
OfferAt(coll, product_id) == coll[FindOffer(coll, product_id)]
DealAt(coll, deal_id) == coll[FindDeal(coll, deal_id)]
HasOffer(coll, product_id) == FindOffer(coll, product_id) # 0
HasDeal(coll, deal_id) == FindDeal(coll, deal_id) # 0

\* Handler h takes the step that ends its request.
Finishes(h) == handlers[h].pc # "done" /\ handlers'[h].pc = "done"

\* No reservation keys on an offer document.
ReservationCleared(doc) ==
    /\ doc.reserved = FALSE
    /\ doc.reserved_deal_id = NoNum
    /\ doc.reserved_by = Missing
    /\ doc.reserved_until = NoNum

\* ---------------------------------------------------------------- C1
\* C1: two Create requests for the same Offer that run concurrently never
\* both succeed: at no time have two handlers in flight both passed the
\* reservation test of the same Offer and had their freeze accepted (from
\* there on a handler has no failure path left and answers "frozen").
ReservationExclusive ==
    \A h1, h2 \in Handlers :
        (/\ h1 # h2
         /\ handlers[h1].op = "create" /\ handlers[h2].op = "create"
         /\ handlers[h1].product_id = handlers[h2].product_id)
        => ~(/\ handlers[h1].pc \in {"write_deal", "write_offer"}
             /\ handlers[h2].pc \in {"write_deal", "write_offer"})

\* ---------------------------------------------------------------- C2
\* C2: in every state, every reserved Offer has exactly one Deal whose id is
\* the Offer's reserved_deal_id, and that Deal is for this Offer and Frozen.
ReservedHasFrozenDeal ==
    \A i \in 1..Len(hub_offers) :
        hub_offers[i].reserved =>
            /\ Cardinality({j \in 1..Len(hub_deals) :
                   hub_deals[j].deal_id = hub_offers[i].reserved_deal_id}) = 1
            /\ \A j \in 1..Len(hub_deals) :
                   hub_deals[j].deal_id = hub_offers[i].reserved_deal_id =>
                       /\ hub_deals[j].product_id = hub_offers[i].id
                       /\ hub_deals[j].status = "frozen"

\* ---------------------------------------------------------------- C3
\* C3: the status of a Deal record changes only from Frozen to Released or
\* from Frozen to RefundRequested; a Deal that is Released or RefundRequested
\* keeps its status whatever step is taken.
DealStatusOnlyAdvances ==
    [][\A j \in 1..Len(hub_deals) :
          LET d == hub_deals[j].deal_id IN
          /\ HasDeal(hub_deals', d)
          /\ \/ DealAt(hub_deals', d).status = hub_deals[j].status
             \/ /\ hub_deals[j].status = "frozen"
                /\ DealAt(hub_deals', d).status \in {"released", "refund_requested"}]_vars

\* ---------------------------------------------------------------- C4
\* C4: a Confirm or Refund whose read finds no Deal fails with NotFound, one
\* whose read finds a Deal that is not Frozen fails with Conflict; the
\* handler then has called no provider, has written nothing, and the step
\* leaves both collections as they are.
SettleRejectsWithoutEffect ==
    [][\A h \in Handlers :
          (handlers[h].op \in SettleOps /\ handlers[h].pc = "find"
              /\ handlers'[h] # handlers[h]) =>
          LET found == HasDeal(hub_deals, handlers[h].deal_id)
              refused == ~found
                         \/ DealAt(hub_deals, handlers[h].deal_id).status # "frozen"
          IN /\ refused <=> handlers'[h].pc = "done"
             /\ refused =>
                  /\ handlers'[h].result = IF found THEN "Conflict" ELSE "NotFound"
                  /\ handlers'[h].called = "none"
                  /\ handlers'[h].wrote = 0
                  /\ hub_deals' = hub_deals
                  /\ hub_offers' = hub_offers]_vars

\* A Refund of a Released Deal has been refused with Conflict.
RefundOfReleasedRefused ==
    \E h \in Handlers :
        /\ handlers[h].op = "refund"
        /\ handlers[h].pc = "done"
        /\ handlers[h].result = "Conflict"
        /\ HasDeal(hub_deals, handlers[h].deal_id)
        /\ DealAt(hub_deals, handlers[h].deal_id).status = "released"


\* ---------------------------------------------------------------- C5
\* What the contract calls a bad input: an empty buyer address, an amount
\* that is not a number above 0, a timeout-days that is given and is not a
\* positive integer.
BadBuyer(payload) == payload.buyer_address \in {"", Missing}
BadAmount(payload) ==
    payload.amount_ton.kind # "num" \/ payload.amount_ton.tenths <= 0
BadTimeout(payload) ==
    /\ payload.timeout_days.kind # "missing"
    /\ \/ payload.timeout_days.kind # "num"
       \/ payload.timeout_days.tenths <= 0
       \/ payload.timeout_days.tenths % 10 # 0
BadInput(payload) ==
    \/ payload.product_id \in {"", Missing}
    \/ BadBuyer(payload)
    \/ BadAmount(payload)
    \/ BadTimeout(payload)

\* C5: a Create ends with NotFound when its Offer is absent, with Conflict
\* when its Offer is reserved, with InvalidArgument when an input is bad (when
\* several of these hold, with the error of one of them), and a Create that
\* ends with an error has written nothing and its last step leaves the Deals
\* and the Offers as they are.
CreateFailsAsSpecified ==
    [][\A h \in Handlers :
          (handlers'[h].op = "create" /\ Finishes(h)) =>
          LET payload == handlers'[h].payload
              result == handlers'[h].result
              absent == ~HasOffer(hub_offers, payload.product_id)
              taken == ~absent /\ OfferAt(hub_offers, payload.product_id).reserved
          IN /\ BadInput(payload) =>
                   \/ result = "InvalidArgument"
                   \/ absent /\ result = "NotFound"
                   \/ taken /\ result = "Conflict"
             /\ (~BadInput(payload) /\ handlers[h].pc = "find" /\ absent) =>
                   result = "NotFound"
             /\ (~BadInput(payload) /\ handlers[h].pc = "find" /\ taken) =>
                   result = "Conflict"
             /\ result # "frozen" =>
                   /\ handlers'[h].wrote = 0
                   /\ hub_deals' = hub_deals
                   /\ hub_offers' = hub_offers]_vars

\* ---------------------------------------------------------------- C6
\* C6: the deal write of Create persists a Frozen Deal for the request's
\* product and buyer; a Create that answers "frozen" has made that write
\* first (the Deal is in the collection) and its last step sets on the Offer
\* reserved, reserved_deal_id = the Deal's id and reserved_by = the buyer.
CreateReserves ==
    [][\A h \in Handlers :
          handlers[h].op = "create" =>
          LET rec == handlers[h]
              buyer == rec.payload.buyer_address
          IN /\ (rec.pc = "write_deal" /\ handlers'[h].pc = "write_offer") =>
                   /\ HasDeal(hub_deals', rec.deal_id)
                   /\ DealAt(hub_deals', rec.deal_id).status = "frozen"
                   /\ DealAt(hub_deals', rec.deal_id).product_id = rec.product_id
                   /\ DealAt(hub_deals', rec.deal_id).buyer_address = buyer
                   /\ hub_offers' = hub_offers
             /\ (Finishes(h) /\ handlers'[h].result = "frozen") =>
                   /\ rec.pc = "write_offer"
                   /\ handlers'[h].wrote = 2
                   /\ HasDeal(hub_deals, rec.deal_id)
                   /\ HasOffer(hub_offers', rec.product_id)
                   /\ OfferAt(hub_offers', rec.product_id).reserved = TRUE
                   /\ OfferAt(hub_offers', rec.product_id).reserved_deal_id = rec.deal_id
                   /\ OfferAt(hub_offers', rec.product_id).reserved_by = buyer]_vars

\* A Create has answered "frozen": its Deal is Frozen for its product and its
\* buyer, and the Offer is reserved for that Deal.
CreateSucceeded ==
    \E h \in Handlers :
        /\ handlers[h].op = "create"
        /\ handlers[h].pc = "done"
        /\ handlers[h].result = "frozen"
        /\ HasDeal(hub_deals, handlers[h].deal_id)
        /\ DealAt(hub_deals, handlers[h].deal_id).status = "frozen"
        /\ DealAt(hub_deals, handlers[h].deal_id).product_id = handlers[h].product_id
        /\ OfferAt(hub_offers, handlers[h].product_id).reserved
        /\ OfferAt(hub_offers, handlers[h].product_id).reserved_deal_id
               = handlers[h].deal_id
        /\ OfferAt(hub_offers, handlers[h].product_id).reserved_by
               = handlers[h].payload.buyer_address

\* ---------------------------------------------------------------- C7
\* C7: a Confirm that answers "released" has called the provider's settle,
\* its deal write sets the Deal to Released, and its last step sets on the
\* Deal's Offer reserved=false, sold=true, sold_deal_id = the deal id, with
\* reserved_deal_id, reserved_by and reserved_until removed.
ConfirmSells ==
    [][\A h \in Handlers :
          handlers[h].op = "confirm" =>
          LET rec == handlers[h] IN
          /\ (rec.pc = "provider" /\ handlers'[h].pc = "write_deal") =>
                /\ handlers'[h].called = "settle"
                /\ hub_deals' = hub_deals
          /\ (rec.pc = "write_deal" /\ handlers'[h].pc = "write_offer") =>
                /\ rec.called = "settle"
                /\ DealAt(hub_deals', rec.deal_id).status = "released"
          /\ (Finishes(h) /\ handlers'[h].result = "released") =>
                /\ rec.pc = "write_offer"
                /\ rec.called = "settle"
                /\ HasOffer(hub_offers', rec.product_id)
                /\ ReservationCleared(OfferAt(hub_offers', rec.product_id))
                /\ OfferAt(hub_offers', rec.product_id).sold = TRUE
                /\ OfferAt(hub_offers', rec.product_id).sold_deal_id = rec.deal_id]_vars

\* A Confirm has answered "released": the Deal is Released and its Offer is
\* sold through it.
ConfirmSucceeded ==
    \E h \in Handlers :
        /\ handlers[h].op = "confirm"
        /\ handlers[h].pc = "done"
        /\ handlers[h].result = "released"
        /\ handlers[h].called = "settle"
        /\ DealAt(hub_deals, handlers[h].deal_id).status = "released"
        /\ OfferAt(hub_offers, handlers[h].product_id).sold
        /\ OfferAt(hub_offers, handlers[h].product_id).sold_deal_id = handlers[h].deal_id
        /\ ReservationCleared(OfferAt(hub_offers, handlers[h].product_id))

\* ---------------------------------------------------------------- C8
\* C8: a Refund that answers "refund_requested" has called the provider's
\* refund, its deal write sets the Deal to RefundRequested, and its last step
\* leaves the Deal's Offer with no reservation and with sold=false.
RefundLeavesUnsold ==
    [][\A h \in Handlers :
          handlers[h].op = "refund" =>
          LET rec == handlers[h] IN
          /\ (rec.pc = "write_deal" /\ handlers'[h].pc = "write_offer") =>
                /\ rec.called = "refund"
                /\ DealAt(hub_deals', rec.deal_id).status = "refund_requested"
          /\ (Finishes(h) /\ handlers'[h].result = "refund_requested") =>
                /\ rec.called = "refund"
                /\ ReservationCleared(OfferAt(hub_offers', rec.product_id))
                /\ OfferAt(hub_offers', rec.product_id).sold = FALSE]_vars

\* ---------------------------------------------------------------- C9
\* C9: when the provider call of Create, Confirm or Refund fails, the request
\* ends with an error, the step leaves the Deals and the Offers as they are
\* and the handler has written nothing; no handler writes before it has
\* called the provider.
ProviderFailureAborts ==
    [][\A h \in Handlers :
          /\ (handlers[h].pc \in {"freeze", "provider"} /\ Finishes(h)) =>
                /\ handlers'[h].result \in {"InvalidArgument", "ServerError"}
                /\ handlers'[h].called # "none"
                /\ handlers'[h].wrote = 0
                /\ hub_deals' = hub_deals
                /\ hub_offers' = hub_offers
          /\ handlers'[h].wrote > 0 => handlers'[h].called # "none"]_vars

\* The settle of a Confirm has failed: the request ended with an error, the
\* Deal is still Frozen and its Offer still reserved.
SettleFailed ==
    \E h \in Handlers :
        /\ handlers[h].op = "confirm"
        /\ handlers[h].pc = "done"
        /\ handlers[h].result = "ServerError"
        /\ handlers[h].called = "settle"
        /\ handlers[h].wrote = 0
        /\ DealAt(hub_deals, handlers[h].deal_id).status = "frozen"
        /\ OfferAt(hub_offers, handlers[h].product_id).reserved

\* --------------------------------------------------------------- C10
\* Number of documents of the index with a given id.
CountOffers(coll, id) == Cardinality({i \in 1..Len(coll) : coll[i].id = id})

\* C10: for every Offer activity and the index of every reachable state,
\* indexing the activity a second time gives the index that indexing it once
\* gives, and that index has exactly one document for the activity's id.
IndexOfferIdempotent ==
    \A a \in Activities :
        a.type = "Offer" =>
            LET once == IndexOfferOn(hub_offers, a) IN
            /\ IndexOfferOn(once, a) = once
            /\ CountOffers(once, ProductId(a)) = 1

\* The index holds the record of OfferA, reserved by a deal, after the
\* record of another offer: indexing OfferA has acted and acts again on a
\* record that carries escrow fields.
IndexedOverReservation ==
    /\ Len(hub_offers) = 2
    /\ hub_offers[2].id = ProductId(OfferA)
    /\ hub_offers[2].source_activity = OfferA.id
    /\ hub_offers[2].reserved
    /\ IndexOfferOn(hub_offers, OfferA) = hub_offers


\* --------------------------------------------------------------- C11
\* Number of edges of a collection from source to target.
CountEdges(coll, source, target) ==
    Cardinality({i \in 1..Len(coll) :
                    coll[i].source = source /\ coll[i].target = target})

\* C11: after any sequence of addTrust calls the Trust Store holds at most
\* one edge per (source, target) pair, and after an addTrust the direct trust
\* of its pair is the weight it has just written (last write wins).
OneEdgePerPairLastWins ==
    [][Len(trust_log') = Len(trust_log) + 1 =>
          LET doc == trust_log'[Len(trust_log')] IN
          /\ CountEdges(trust_log', doc.source, doc.target) = 1
          /\ GetDirectTrust(trust_log', doc.source, doc.target) = doc.weight]_vars

\* --------------------------------------------------------------- C12
\* clamp(w, 0.1, 1.0) as the contract words it.
ClampedWeight(w) ==
    CASE w < MinWeight -> MinWeight
      [] w > MaxWeight -> MaxWeight
      [] OTHER -> w

\* C12: for every input weight w and every store, addTrust adds to the store
\* one edge for its pair whose weight is clamp(w, 0.1, 1.0): 0.1 for
\* w < 0.1, 1.0 for w > 1.0, w otherwise.
AddTrustClamps ==
    \A e \in TrustInputs :
        LET after == AddTrustOn(trust_log, e[1], e[2], e[3]) IN
        /\ Len(after) = Len(trust_log) + 1
        /\ SubSeq(after, 1, Len(trust_log)) = trust_log
        /\ after[Len(after)].source = e[1]
        /\ after[Len(after)].target = e[2]
        /\ after[Len(after)].weight = ClampedWeight(e[3])
        /\ TrustDoc(e[1], e[2], e[3]).weight = ClampedWeight(e[3])

\* add_trust has stored an edge raised to 0.1, one lowered to 1.0 and one
\* kept as given.
ClampedEdgesStored ==
    /\ Len(trust_log) = 3
    /\ trust_log[1] = TrustDoc("a", "a", 0) /\ trust_log[1].weight = MinWeight
    /\ trust_log[2] = TrustDoc("b", "a", 50) /\ trust_log[2].weight = MaxWeight
    /\ trust_log[3] = TrustDoc("a", "b", 5) /\ trust_log[3].weight = 5

\* --------------------------------------------------------------- C13
\* C13: every stored trust edge, written by add_trust or by the indexing of
\* an inbound Trust activity, has its weight in [0.1, 1.0].
StoredWeightsInRange ==
    /\ \A i \in 1..Len(trust_log) :
          trust_log[i].weight >= MinWeight /\ trust_log[i].weight <= MaxWeight
    /\ \A i \in 1..Len(hub_trust_log) :
          /\ hub_trust_log[i].weight >= MinWeight
          /\ hub_trust_log[i].weight <= MaxWeight

\* --------------------------------------------------------------- C14
\* C14: for every actor a and every store, trustScore(a, a, d) is 1.0 for
\* every depth d >= 1 and 0.0 for depth 0.
SelfTrustAfterDepth ==
    \A a \in Actors :
        /\ ComputeTrustScore(trust_log, a, a, 0) = 0
        /\ \A d \in 1..MaxDepth : ComputeTrustScore(trust_log, a, a, d) = Scale

\* The store holds a self-loop of weight 0.1 and an edge out of the same
\* actor: the self score is not that of an edge.
SelfLoopStored ==
    /\ \E i \in 1..Len(trust_log) :
          /\ trust_log[i].source = "a" /\ trust_log[i].target = "a"
          /\ trust_log[i].weight = MinWeight
    /\ \E i \in 1..Len(trust_log) :
          trust_log[i].source = "a" /\ trust_log[i].target = "b"

\* --------------------------------------------------------------- C15
\* C15: for distinct actors a, b with an edge a -> b in the store, whose first
\* one has weight d, trustScore(a, b, depth) = d for every depth >= 1,
\* whatever the indirect paths from a to b.
DirectEdgeShortCircuits ==
    \A a, b \in Actors :
        (a # b /\ FindEdge(trust_log, a, b) # 0) =>
            \A depth \in 1..MaxDepth :
                ComputeTrustScore(trust_log, a, b, depth)
                    = trust_log[FindEdge(trust_log, a, b)].weight * WeightUnit

\* The store holds a direct edge a -> c of weight 0.2 and the path
\* a -> b -> c of weights 1.0 and 1.0, whose damped product is 0.8.
WeakDirectStrongIndirect ==
    /\ GetDirectTrust(trust_log, "a", "c") = 2
    /\ GetDirectTrust(trust_log, "a", "b") = 10
    /\ GetDirectTrust(trust_log, "b", "c") = 10
    /\ Damped(10, 10 * WeightUnit) > 2 * WeightUnit

\* --------------------------------------------------------------- C16
\* The largest number of a finite set of numbers, 0 for the empty set.
SetMax(S) == IF S = {} THEN 0 ELSE CHOOSE x \in S : \A y \in S : y <= x

\* The damped scores through the outgoing edges of source.
RelayScores(coll, source, target, depth) ==
    {Damped(coll[i].weight, ComputeTrustScore(coll, coll[i].target, target, depth - 1)) :
        i \in {j \in 1..Len(coll) : coll[j].source = source}}

\* C16: for distinct source and target with no direct edge and depth >= 1,
\* trustScore(source, target, depth) is the maximum over the outgoing edges
\* source -> relay of weight w of w * trustScore(relay, target, depth-1) * 0.8,
\* and 0.0 when source has no outgoing edge or no relay reaches the target.
ScoreIsMaxOverRelays ==
    \A source, target \in Actors :
        (source # target /\ FindEdge(trust_log, source, target) = 0) =>
            \A depth \in 1..MaxDepth :
                /\ ComputeTrustScore(trust_log, source, target, depth)
                      = SetMax(RelayScores(trust_log, source, target, depth))
                /\ (\A x \in RelayScores(trust_log, source, target, depth) : x = 0)
                      => ComputeTrustScore(trust_log, source, target, depth) = 0

\* The store holds no edge a -> c and two edges out of a, a -> b and the
\* self-loop a -> a, that both reach c within the default depth.
TwoRelaysReachTarget ==
    /\ FindEdge(trust_log, "a", "c") = 0
    /\ FindEdge(trust_log, "a", "b") # 0
    /\ FindEdge(trust_log, "a", "a") # 0
    /\ FindEdge(trust_log, "b", "c") # 0
    /\ Cardinality({x \in RelayScores(trust_log, "a", "c", DefaultDepth) : x > 0}) = 2


\* --------------------------------------------------------------- C17
\* C17: on every finite trust graph, with cycles and self-loops, and for
\* every depth >= 0, a call of trustScore that has been started returns.
ScoreTerminates == (score_call.stack # << >>) ~> (score_call.stack = << >>)

\* A call of the default depth from a to c has returned 0.0 on a store that
\* holds the cycle a -> b -> a and the self-loop a -> a and no way to c.
ReturnedOnCycle ==
    /\ score_call.returned
    /\ score_call.source = "a" /\ score_call.target = "c"
    /\ score_call.depth = DefaultDepth
    /\ score_call.result = 0
    /\ FindEdge(trust_log, "a", "b") # 0
    /\ FindEdge(trust_log, "b", "a") # 0
    /\ FindEdge(trust_log, "a", "a") # 0


LookupFailureIsNeutral ==
    /\ \A k \in 1..Len(search_out.lookups) :
          search_out.lookups[k] \in {"absent", "raised"} =>
              /\ search_out.products[k].reputation_score = Scale \div 2
              /\ search_out.products[k].rank_score
                    = search_out.products[k].offer.price * Scale
    /\ search_out.status = "done" =>
          /\ Len(search_out.results) = Len(search_out.products)
          /\ Len(search_out.lookups) = Len(search_out.products)
          /\ \A k \in 1..Len(search_out.products) :
                \E i \in 1..Len(search_out.results) :
                    search_out.results[i] = search_out.products[k]

\* A search has finished with two offers, the lookup of one seller raised
\* and that of the other answered.
FinishedAfterFailedLookup ==
    /\ search_out.status = "done"
    /\ Len(search_out.results) = 2
    /\ \E k \in 1..2 : search_out.lookups[k] = "raised"
    /\ \E k \in 1..2 : search_out.lookups[k] = "ok"


\* --------------------------------------------------------------- C20
\* C20: when the delivery to one peer fails (timeout, network error),
\* replicate goes on to the remaining eligible peers of the registry: it ends
\* only after a delivery attempt to every eligible peer, and without raising.
FailedDeliveryDoesNotAbort ==
    /\ ~fanout.raised
    /\ fanout.pc = "done" =>
          \A j \in 1..Len(fanout.hubs) :
              Eligible(fanout.hubs[j]) =>
                  \E i \in 1..Len(fanout.log) :
                      fanout.log[i].domain = fanout.hubs[j].domain

\* A replication over three eligible peers has returned: the delivery to the
\* first ran into the timeout and the other two were answered.
OneOfThreeFailed ==
    /\ fanout.pc = "done"
    /\ Len(fanout.log) = 3
    /\ fanout.log[1] = [domain |-> "https://hub1.example", delivery |-> "timeout"]
    /\ fanout.log[2] = [domain |-> "https://hub3.example", delivery |-> "ok"]
    /\ fanout.log[3] = [domain |-> "https://hub4.example", delivery |-> "ok"]

\* --------------------------------------------------------------- C24
\* The step is the offer write of a confirm or refund of deal deal_id.
SettlesDeal(deal_id) ==
    \E h \in Handlers :
        /\ handlers[h].op \in SettleOps
        /\ handlers[h].pc = "write_offer"
        /\ handlers[h].deal_id = deal_id
        /\ handlers'[h].pc = "done"

\* The step is the offer write of some escrow operation.
EscrowWrite ==
    \E h \in Handlers :
        handlers[h].pc = "write_offer" /\ handlers'[h].pc = "done"

\* The reservation and sale fields of an offer document.
EscrowFields(doc) ==
    <<doc.reserved, doc.reserved_deal_id, doc.reserved_by, doc.reserved_until,
      doc.sold, doc.sold_deal_id>>

\* C24: the reserved*/sold* fields of an Offer change only in the offer
\* write of an escrow operation, and an Offer reserved for a deal stays
\* reserved for that deal in every step that is not the offer write of the
\* Confirm or the Refund of that deal.
ReservationKeptUntilSettled ==
    [][\A i \in 1..Len(hub_offers) :
          /\ EscrowFields(hub_offers'[i]) # EscrowFields(hub_offers[i])
                => EscrowWrite
          /\ (hub_offers[i].reserved
                /\ ~SettlesDeal(hub_offers[i].reserved_deal_id))
                => /\ hub_offers'[i].reserved
                   /\ hub_offers'[i].reserved_deal_id
                         = hub_offers[i].reserved_deal_id]_vars

\* --------------------------------------------------------------- C26
\* C26: the deal write of a Create adds a Deal under a dealID that no Deal
\* of the store uses, and leaves every Deal of the store as it is.
CreateNeverOverwritesDeal ==
    [][\A h \in Handlers :
          (/\ handlers[h].op = "create"
           /\ handlers[h].pc = "write_deal"
           /\ handlers'[h].pc = "write_offer")
          => /\ FindDeal(hub_deals, handlers[h].deal_id) = 0
             /\ Len(hub_deals') = Len(hub_deals) + 1
             /\ \A i \in 1..Len(hub_deals) : hub_deals'[i] = hub_deals[i]]_vars

\* --------------------------------------------------------------- C27
\* The request of handler h has invoked the provider's call and has its
\* receipt.
ProviderAnswered(h, call) ==
    /\ handlers[h].called = call
    /\ handlers[h].pc \in {"write_deal", "write_offer", "done"}
    /\ handlers[h].result # "ServerError"

\* C27: no two requests have invoked, each with success, the provider's
\* settle and the provider's refund for the same Deal.
SettleAndRefundExclude ==
    \A h, g \in Handlers :
        ~(/\ ProviderAnswered(h, "settle")
          /\ ProviderAnswered(g, "refund")
          /\ handlers[h].deal_id = handlers[g].deal_id)

\* --------------------------------------------------------------- C28
\* C28: an Offer with sold = true stays sold under the same soldDealID and
\* is never reserved again.
SoldIsFinal ==
    [][\A i \in 1..Len(hub_offers) :
          hub_offers[i].sold =>
              /\ hub_offers'[i].sold
              /\ hub_offers'[i].sold_deal_id = hub_offers[i].sold_deal_id
              /\ ~hub_offers'[i].reserved]_vars

\* --------------------------------------------------------------- C29
\* C29: every edge a -> b of weight w written by indexing an inbound Trust
\* activity is read by the scorer: directTrust(a, b) and trustScore(a, b)
\* return w.
IndexedTrustIsScored ==
    \A i \in 1..Len(hub_trust_log) :
        LET edge == hub_trust_log[i] IN
        /\ GetDirectTrust(trust_log, edge.source, edge.target) = edge.weight
        /\ edge.source # edge.target =>
              ComputeTrustScore(trust_log, edge.source, edge.target, DefaultDepth)
                  = edge.weight * WeightUnit

\* --------------------------------------------------------------- C21
\* A registry entry of a peer: active, and not this node.
IsPeerEntry(hub) == hub.active = TRUE /\ hub.domain # HubDomain

\* C21: the delivery attempts of one replicate call are, one for one and in
\* the order of the registry, its entries with active = true and a domain
\* other than this node's: none for an inactive entry or for this node, none
\* twice, a failed one not repeated; when the call returns each of those
\* entries has had its attempt.
AttemptsOncePerPeer ==
    LET peers == SelectSeq(fanout.hubs, IsPeerEntry) IN
    /\ Len(fanout.log) <= Len(peers)
    /\ \A i \in 1..Len(fanout.log) : fanout.log[i].domain = peers[i].domain
    /\ fanout.pc = "done" => Len(fanout.log) = Len(peers)

\* A replication over the registry of five entries has returned after three
\* attempts, the second of which failed on the network.
FiveEntriesThreeAttempts ==
    /\ fanout.pc = "done"
    /\ Len(fanout.hubs) = 5
    /\ \E j \in 1..5 : fanout.hubs[j].domain = HubDomain /\ fanout.hubs[j].active
    /\ \E j \in 1..5 : ~fanout.hubs[j].active
    /\ Len(fanout.log) = 3
    /\ fanout.log[2].delivery = "network error"

\* --------------------------------------------------------------- C25
\* A tag without its leading "#".
WithoutHash(tag) == IF tag # << >> /\ Head(tag) = "#" THEN Tail(tag) ELSE tag

\* C25: every offer a search returns satisfies every filter of the request:
\* price >= minPrice, price <= maxPrice (both inclusive, also together), and
\* the tag, without its leading "#", is among the offer's tags.
ResultsSatisfyFilters ==
    search_out.status = "done" =>
        \A i \in 1..Len(search_out.results) :
            LET offer == search_out.results[i].offer
                query == search_out.query
            IN /\ query.min_price # NoNum => offer.price >= query.min_price
               /\ query.max_price # NoNum => offer.price <= query.max_price
               /\ query.tag # << >> =>
                     \E j \in 1..Len(offer.tags) :
                         offer.tags[j] = WithoutHash(query.tag)

\* With offers priced 10, 50 and 100 in the index, a search with minPrice 20
\* and maxPrice 80 has returned the offer priced 50 and no other.
OnlyTheMiddleOffer ==
    /\ {hub_offers[i].price : i \in 1..Len(hub_offers)} = {10, 50, 100}
    /\ search_out.status = "done"
    /\ search_out.query.min_price = 20
    /\ search_out.query.max_price = 80
    /\ search_out.query.tag = << >>
    /\ Len(search_out.results) = 1
    /\ search_out.results[1].offer.price = 50

\* --------------------------------------------------------------- C22
RECURSIVE AfterEach(_, _)
\* The peer after it has received the activities of a list, each once and
\* in the order of the list.
AfterEach(activities, peer) ==
    IF activities = << >> THEN peer
    ELSE AfterEach(Tail(activities), PeerHubInboxOn(peer, Head(activities)))

\* The documents of a collection.
Docs(coll) == {coll[i] : i \in 1..Len(coll)}

\* C22: a peer that has received every activity of the set, in any order and
\* any number of times, holds the Offer Index and the trust log of a peer
\* that has received each of them once in the order of publication.
DeliveryOrderIrrelevant ==
    LET once == AfterEach(Published, NoNet) IN
    net.received = once.received =>
        /\ Docs(net.peer_offers) = Docs(once.peer_offers)
        /\ Docs(net.peer_trust_log) = Docs(once.peer_trust_log)

\* --------------------------------------------------------------- C23
\* The local stores hold what indexing the activity writes.
IndexedHere(activity) ==
    IF activity.type = "Offer"
    THEN \E i \in 1..Len(hub_offers) : hub_offers[i].source_activity = activity.id
    ELSE \E i \in 1..Len(hub_trust_log) : hub_trust_log[i] = HubTrustDoc(activity)

\* C23: a step that changes the Offer Index is the indexing of an Offer and
\* leaves the trust log alone; a step that changes the trust log is the
\* indexing of a Trust and leaves the Offer Index alone; a request with an
\* activity of any other type is answered at once with both stores and the
\* fan-out untouched; a fan-out is only ever that of an Offer or a Trust, and
\* each of its deliveries is made when the local index holds the activity.
ClassifiedByType ==
    [][/\ hub_offers' # hub_offers =>
            /\ hub_trust_log' = hub_trust_log
            /\ \E a \in InboxActivities :
                  /\ a.type = "Offer"
                  /\ hub_offers' = IndexOfferOn(hub_offers, a)
                  /\ inbox' # inbox => a.id = inbox.activity
       /\ hub_trust_log' # hub_trust_log =>
            /\ hub_offers' = hub_offers
            /\ \E a \in InboxActivities :
                  /\ a.type = "fedmarket:Trust"
                  /\ hub_trust_log' = IndexTrustOn(hub_trust_log, a)
                  /\ inbox' # inbox => a.id = inbox.activity
       /\ (/\ inbox' # inbox
           /\ ActivityOf(inbox'.activity).type \notin {"Offer", "fedmarket:Trust"})
            => /\ inbox'.pc = "done"
               /\ hub_offers' = hub_offers
               /\ hub_trust_log' = hub_trust_log
               /\ fanout' = fanout
       /\ fanout' # fanout =>
            ActivityOf(fanout'.activity).type \in {"Offer", "fedmarket:Trust"}
       /\ Len(fanout'.log) > Len(fanout.log) =>
            IndexedHere(ActivityOf(fanout.activity))]_vars

\* The /inbox route has answered a Trust activity after a fan-out of three
\* deliveries: the trust log holds its edge, the Offer Index holds nothing.
TrustAcceptedAndFannedOut ==
    /\ inbox.pc = "done"
    /\ ActivityOf(inbox.activity).type = "fedmarket:Trust"
    /\ fanout.pc = "done"
    /\ Len(fanout.log) = 3
    /\ Len(hub_trust_log) = 1
    /\ hub_trust_log[1] = HubTrustDoc(ActivityOf(inbox.activity))
    /\ hub_offers = << >>

\* --------------------------------------------------------------- C30
\* The peer's stores hold what indexing the activity writes.
IndexedAtPeer(activity) ==
    CASE activity.type = "Offer" ->
            \E i \in 1..Len(net.peer_offers) :
                net.peer_offers[i].source_activity = activity.id
      [] activity.type = "fedmarket:Trust" ->
            \E i \in 1..Len(net.peer_trust_log) :
                net.peer_trust_log[i] = HubTrustDoc(activity)
      [] OTHER -> TRUE

\* C30: an activity the Replicator has delivered to the peer's hub inbox is
\* indexed there and the peer makes no delivery in turn; one fan-out makes
\* at most one attempt per peer; and every accepted activity's request ends.
NoReplicationLoop ==
    /\ [](/\ net.attempts = << >>
          /\ \A id \in net.received : IndexedAtPeer(ActivityOf(id))
          /\ \A i, j \in 1..Len(fanout.log) :
                i # j => fanout.log[i].domain # fanout.log[j].domain)
    /\ (inbox.pc \in {"index", "replicate"}) ~> (inbox.pc = "done")

\* The request of an accepted Offer has ended after a fan-out whose delivery
\* to the peer was answered: the peer has indexed the Offer.
DeliveredAndIndexedAtPeer ==
    /\ inbox.pc = "done"
    /\ inbox.activity = OfferA.id
    /\ fanout.pc = "done"
    /\ \E i \in 1..Len(fanout.log) :
          fanout.log[i] = [domain |-> PeerDomain, delivery |-> "ok"]
    /\ OfferA.id \in net.received
    /\ Len(net.peer_offers) = 1
    /\ net.peer_offers[1].source_activity = OfferA.id

\* --------------------------------------------------------------- C31
\* C31: the trust score from a seller to the same seller, at the default
\* depth, is 1.0 whatever the trust log holds; a lookup that succeeds gives
\* the reputation 0.9, and every reputation is 0.9 or the fallback 0.5; a
\* search in which no lookup has failed returns its products in the order of
\* ascending price in which the query gave them.
SelfReputationIsConstant ==
    /\ \A seller \in {Alice, Bob} :
          ComputeTrustScore(trust_log, seller, seller, DefaultDepth) = Scale
    /\ \A k \in 1..Len(search_out.lookups) :
          /\ search_out.lookups[k] = "ok" =>
                search_out.products[k].reputation_score = 9 * WeightUnit
          /\ search_out.products[k].reputation_score
                \in {9 * WeightUnit, 5 * WeightUnit}
    /\ (/\ search_out.status = "done"
        /\ \A k \in 1..Len(search_out.lookups) : search_out.lookups[k] = "ok")
          => /\ search_out.results = search_out.products
             /\ \A i, j \in 1..Len(search_out.results) :
                   i < j => search_out.results[i].offer.price
                               <= search_out.results[j].offer.price

\* A search over a trust log with statements about the sellers has returned
\* the offers of two sellers, every lookup answered: both have the
\* reputation 0.9 and the cheaper one comes first.
CheaperFirstWhenAllAnswered ==
    /\ search_out.status = "done"
    /\ Len(trust_log) = 2
    /\ Len(search_out.results) = 2
    /\ \A k \in 1..2 : search_out.lookups[k] = "ok"
    /\ search_out.results[1].offer.price = 80
    /\ search_out.results[1].offer.seller = Bob
    /\ search_out.results[2].offer.price = 100
    /\ search_out.results[2].offer.seller = Alice
    /\ \A i \in 1..2 : search_out.results[i].reputation_score = 9 * WeightUnit

\* --------------------------------------------------------------- C32
\* The rank score ranking gives an offer whose seller's lookup is answered.
RankScoreOf(offer) ==
    RankScore(offer.price,
              SellerReputation(trust_log, offer.seller,
                               search_out.trust_service, FALSE))

====
